---- MODULE Spec2Model ----
(***************************************************************************)
(* Internship tracker: the session observable, the access gate, the        *)
(* dashboard's snapshot subscription, its view-state derivation (status    *)
(* counts, status filter, text search, sort), and its form: handleSubmit,  *)
(* handleEdit, handleCancelEdit and handleDelete with the database calls   *)
(* they leave in flight.                                                   *)
(*                                                                         *)
(* Strings are sequences of one-character strings, so that trimming,       *)
(* lower-casing, concatenation and substring search are computed.          *)
(* A Firestore Timestamp is the one-element sequence <<ms>>, null is <<>>. *)
(***************************************************************************)
EXTENDS Integers, Sequences, FiniteSets, TLC

\* ------------------------------------------------------------------ bounds
\* Document identifiers are 1..MaxDocs: at most MaxDocs documents per user.
MaxDocs == 2
\* The browser history keeps its last MaxHistory entries.
MaxHistory == 3
\* At most MaxDeletes deleteDoc calls are in flight.
MaxDeletes == 1

\* --------------------------------------------------------------- constants
NoUser == "null"
Users == {"u1", "u2"}

Dashboard == "/"
AuthRoute == "/auth"

STATUS_OPTIONS == <<"applied", "online_assessment", "interview", "offer", "rejected">>
InternshipStatus == {STATUS_OPTIONS[i] : i \in DOMAIN STATUS_OPTIONS}
StatusFilter == {"all"} \cup InternshipStatus
SortOption == {"newest", "oldest", "company-az", "company-za"}

\* A field the stored document does not have (undefined or null in data()).
MissingString == <<"undefined">>
MissingStatus == "undefined"
\* createdAt of a write the server has not acknowledged yet.
Null == <<>>
Timestamp(ms) == <<ms>>
\* A field stored as a number other than 0 where the application writes a
\* string (the database has no schema): in a concatenation it is its
\* decimal text, which no search term of the model is part of.
StoredNumber == <<"number">>
\* createdAt stored as a plain number of milliseconds, not as a Timestamp.
PlainMillis(ms) == <<ms, ms>>
\* A Timestamp is an object; a plain number is a primitive.
IsPrimitive(v) == Len(v) = 2
\* The serverTimestamp() sentinel: in the data of a call, and as createdAt
\* in the client's view of a document whose creation the server has yet to
\* acknowledge.  It is no time the server gives.
ServerTimestamp == <<-1>>

NoError == "null"
LoadError == "Failed to load internships. Check console for details."

\* ----------------------------------------------------------------- strings
Space == " "

\* The soft hyphen U+00AD: not white space, without case, and ignored by
\* collation.
SoftHyphen == "shy"

\* String.prototype.toLowerCase on the modelled alphabet.
LowerChar(c) == IF c = "A" THEN "a" ELSE IF c = "B" THEN "b" ELSE c
ToLowerCase(s) == [i \in 1..Len(s) |-> LowerChar(s[i])]

RECURSIVE TrimStart(_)
TrimStart(s) == IF s # <<>> /\ Head(s) = Space THEN TrimStart(Tail(s)) ELSE s

RECURSIVE TrimEnd(_)
TrimEnd(s) ==
    IF s # <<>> /\ s[Len(s)] = Space THEN TrimEnd(SubSeq(s, 1, Len(s) - 1)) ELSE s

\* String.prototype.trim
Trim(s) == TrimEnd(TrimStart(s))

\* String.prototype.includes
Includes(haystack, needle) ==
    \E i \in 0..(Len(haystack) - Len(needle)) :
        SubSeq(haystack, i + 1, i + Len(needle)) = needle

\* Collation weights of the modelled alphabet: white space sorts before
\* letters, and a letter's case is a tertiary difference only.
Primary(c) == IF c = Space THEN 0 ELSE IF LowerChar(c) = "a" THEN 1 ELSE 2
Tertiary(c) == IF c = LowerChar(c) THEN 0 ELSE 1

RECURSIVE LexCompare(_, _)
LexCompare(ka, kb) ==
    IF ka = <<>> /\ kb = <<>> THEN 0
    ELSE IF ka = <<>> THEN -1
    ELSE IF kb = <<>> THEN 1
    ELSE IF Head(ka) < Head(kb) THEN -1
    ELSE IF Head(ka) > Head(kb) THEN 1
    ELSE LexCompare(Tail(ka), Tail(kb))

\* The code points of s that collation gives a weight to.
Collated(s) == SelectSeq(s, LAMBDA c : c # SoftHyphen)

\* String.prototype.localeCompare: ignorable code points dropped, primary
\* weights first, case last; 0 for strings that differ in ignorable code
\* points only.
LocaleCompare(a, b) ==
    LET ca == Collated(a)
        cb == Collated(b)
        p == LexCompare([i \in 1..Len(ca) |-> Primary(ca[i])],
                        [i \in 1..Len(cb) |-> Primary(cb[i])])
    IN  IF p # 0 THEN p
        ELSE LexCompare([i \in 1..Len(ca) |-> Tertiary(ca[i])],
                        [i \in 1..Len(cb) |-> Tertiary(cb[i])])

\* ------------------------------------------------- the database collaborator
Ids == 1..MaxDocs
Absent == [absent |-> TRUE]

\* The documents of one user's collection, as stored (slot i holds id i).
DocsOf(coll) == {[id |-> i, data |-> coll[i]] : i \in {j \in Ids : coll[j] # Absent}}

\* The query orders values of different types by type: null, then
\* numbers, then timestamps; a pending server timestamp orders after every
\* committed one.
TypeRank(v) ==
    IF v = Null THEN 0
    ELSE IF IsPrimitive(v) THEN 1
    ELSE IF v # ServerTimestamp THEN 2
    ELSE 3

\* The largest number or time a stored createdAt holds, plus one.
TimeSpan == 1000

\* Position of a document under orderBy("createdAt", "desc"): by type, then
\* by value, so that a pending creation comes first and a stored null last.
OrderKey(d) ==
    LET v == d.data.createdAt
    IN  TypeRank(v) * TimeSpan + (IF TypeRank(v) \in {0, 3} THEN 0 ELSE v[1])

\* d comes before e in the query's order (ties by document name, descending).
QueryBefore(d, e) ==
    \/ OrderKey(d) > OrderKey(e)
    \/ OrderKey(d) = OrderKey(e) /\ d.id > e.id

RECURSIVE QueryOrder(_)
QueryOrder(docs) ==
    IF docs = {} THEN <<>>
    ELSE LET first == CHOOSE d \in docs : \A e \in docs \ {d} : QueryBefore(d, e)
         IN  <<first>> \o QueryOrder(docs \ {first})

\* snapshot.docs of the query over one user's collection
SnapshotDocs(coll) == QueryOrder(DocsOf(coll))

\* ------------------------------------------------------- snapshot mapping
\* a ?? b
Coalesce(v, missing, default) == IF v = missing THEN default ELSE v

\* The status cast (data.status as InternshipStatus) is erased at run time:
\* only a missing value is replaced.
MapStatus(stored) == Coalesce(stored, MissingStatus, "applied")

\* docSnap.data() gives null for a server timestamp that is still pending.
DataValue(v) == IF v = ServerTimestamp THEN Null ELSE v

MapDoc(docSnap) ==
    [id        |-> docSnap.id,
     company   |-> Coalesce(docSnap.data.company, MissingString, <<>>),
     role      |-> Coalesce(docSnap.data.role, MissingString, <<>>),
     status    |-> MapStatus(docSnap.data.status),
     notes     |-> Coalesce(docSnap.data.notes, MissingString, <<>>),
     createdAt |-> DataValue(docSnap.data.createdAt)]

MapSnapshot(docs) == [i \in 1..Len(docs) |-> MapDoc(docs[i])]

\* ------------------------------------------------- view-state derivation
TotalCount(items) == Len(items)

CountStatus(items, s) == Cardinality({i \in 1..Len(items) : items[i].status = s})

StatusCounts(items) == [s \in InternshipStatus |-> CountStatus(items, s)]

\* Mutant: the search term is lower-cased but not trimmed.
NormalizedSearch_Untrimmed(term) == ToLowerCase(term)

NormalizedSearch(term) == ToLowerCase(Trim(term))

\* Mutant: the status comparison is negated.
MatchesStatus_Negated(item, filter) == filter = "all" \/ item.status # filter

MatchesStatus(item, filter) == filter = "all" \/ item.status = filter

Haystack(item) ==
    ToLowerCase(item.company \o <<Space>> \o item.role \o <<Space>>
                \o Coalesce(item.notes, MissingString, <<>>))

MatchesSearch(item, term) ==
    NormalizedSearch(term) = <<>> \/ Includes(Haystack(item), NormalizedSearch(term))

\* Mutant: either predicate suffices.
PassesFilter_Either(item, filter, term) ==
    MatchesStatus(item, filter) \/ MatchesSearch(item, term)

PassesFilter(item, filter, term) ==
    MatchesStatus(item, filter) /\ MatchesSearch(item, term)

\* Array.prototype.filter returns a new array and leaves its receiver alone.
FilteredInternships(items, filter, term) ==
    SelectSeq(items, LAMBDA item : PassesFilter(item, filter, term))

\* Mutant: a pending record counts as the latest.
GetTime_PendingLatest(x) == IF x.createdAt # Null THEN x.createdAt[1] ELSE 1000000

\* typeof v === "string", for the value of a mapped string field.
IsString(v) == v # StoredNumber

\* The truthiness of a createdAt value: null and the number 0 are falsy.
Truthy(v) == v # Null /\ ~(IsPrimitive(v) /\ v[1] = 0)

\* (v && "toDate" in v) throws: v is truthy and not an object, so the in
\* operator raises a TypeError.
ToDateTestThrows(v) == Truthy(v) /\ IsPrimitive(v)

\* getTime throws on its test of x.createdAt.
GetTimeThrows(x) == ToDateTestThrows(x.createdAt)

GetTime(x) ==
    IF Truthy(x.createdAt) /\ ~IsPrimitive(x.createdAt) THEN x.createdAt[1] ELSE 0

\* Mutant: "newest" compares ascending.
Compare_NewestAscending(a, b, option) ==
    IF option = "newest" THEN GetTime(a) - GetTime(b)
    ELSE IF option = "oldest" THEN GetTime(a) - GetTime(b)
    ELSE IF option = "company-az"
         THEN LocaleCompare(ToLowerCase(a.company), ToLowerCase(b.company))
    ELSE IF option = "company-za"
         THEN LocaleCompare(ToLowerCase(b.company), ToLowerCase(a.company))
    ELSE 0

\* Mutant: "company-za" compares like "company-az".
Compare_ZaLikeAz(a, b, option) ==
    IF option = "newest" THEN GetTime(b) - GetTime(a)
    ELSE IF option = "oldest" THEN GetTime(a) - GetTime(b)
    ELSE IF option = "company-az"
         THEN LocaleCompare(ToLowerCase(a.company), ToLowerCase(b.company))
    ELSE IF option = "company-za"
         THEN LocaleCompare(ToLowerCase(a.company), ToLowerCase(b.company))
    ELSE 0

\* The comparator handed to sort: negative puts a first.
Compare(a, b, option) ==
    IF option = "newest" THEN GetTime(b) - GetTime(a)
    ELSE IF option = "oldest" THEN GetTime(a) - GetTime(b)
    ELSE IF option = "company-az"
         THEN LocaleCompare(ToLowerCase(a.company), ToLowerCase(b.company))
    ELSE IF option = "company-za"
         THEN LocaleCompare(ToLowerCase(b.company), ToLowerCase(a.company))
    ELSE 0

\* The comparator throws: getTime does under the date options; under the
\* others a.company.toLowerCase() or b.company.toLowerCase() is not a
\* function.
CompareThrows(a, b, option) ==
    IF option \in {"newest", "oldest"} THEN GetTimeThrows(b) \/ GetTimeThrows(a)
    ELSE ~IsString(a.company) \/ ~IsString(b.company)

\* Array.prototype.sort calls the comparator on pairs of elements, each
\* element of an array of two or more in some pair.
SortThrows(arr, option) ==
    \E i, j \in 1..Len(arr) : i # j /\ CompareThrows(arr[i], arr[j], option)

\* The derivation raises an error instead of completing.
DeriveThrows(items, filter, term, option) ==
    SortThrows(FilteredInternships(items, filter, term), option)

\* The list element of one displayed record throws: on the test of its
\* createdAt for the date label, or on item.notes.trim() for notes
\* that are truthy and not a string.
ItemThrows(item) ==
    \/ ToDateTestThrows(item.createdAt)
    \/ ~IsString(item.notes)

\* Mutant: the page takes any session for a signed-in one.
SignedIn_Always(u) == TRUE

\* The page's test of the session user (!user is false), in its render and
\* in handleSubmit and handleDelete.
SignedIn(u) == u # NoUser

\* The render gets past its early returns (authLoading, !user): the form,
\* the filter, search and sort controls and the list are on the page.
\* Before that the page is a line of text without any control.
PageRendered(u, ld) == ~ld /\ SignedIn(u)

\* The list is rendered once loadingList is false, one element per record
\* the derivation leaves.
ListThrows(u, ld, ll, shown) ==
    /\ PageRendered(u, ld) /\ ~ll
    /\ \E k \in 1..Len(shown) : ItemThrows(shown[k])

\* One render of the dashboard throws: in the derivation, or further down
\* in the list.
RenderThrows(u, ld, items, ll, filter, term, option) ==
    \/ DeriveThrows(items, filter, term, option)
    \/ ListThrows(u, ld, ll, FilteredInternships(items, filter, term))

\* Array.prototype.sort is stable: x goes after every element not above it.
RECURSIVE InsertSorted(_, _, _)
InsertSorted(x, sorted, option) ==
    IF sorted = <<>> THEN <<x>>
    ELSE IF Compare(Head(sorted), x, option) <= 0
         THEN <<Head(sorted)>> \o InsertSorted(x, Tail(sorted), option)
    ELSE <<x>> \o sorted

RECURSIVE ArraySort(_, _)
ArraySort(arr, option) ==
    IF arr = <<>> THEN <<>>
    ELSE InsertSorted(arr[Len(arr)], ArraySort(SubSeq(arr, 1, Len(arr) - 1), option), option)

\* [...filteredInternships].sort(...): the copy is sorted, not the source.
SortedInternships(filtered, option) == ArraySort(filtered, option)

\* Mutant: the state array itself is sorted in place.
DeriveView_SortsSource(items, filter, term, option) ==
    [internships       |-> ArraySort(items, option),
     totalCount        |-> TotalCount(items),
     statusCounts      |-> StatusCounts(items),
     sortedInternships |-> SortedInternships(FilteredInternships(items, filter, term), option)]

\* One render of the dashboard: the state array after the render, and what
\* the render shows.
DeriveView(items, filter, term, option) ==
    [internships       |-> items,
     totalCount        |-> TotalCount(items),
     statusCounts      |-> StatusCounts(items),
     sortedInternships |-> SortedInternships(FilteredInternships(items, filter, term), option)]

\* ------------------------------------------------------ session and gate
\* Mutant: the user is tested before the loading flag.
RequireAuth_UserFirst(u, ld) ==
    IF u = NoUser THEN "navigate"
    ELSE IF ld THEN "loading"
    ELSE "children"

\* RequireAuth: what the gate renders for a session.
RequireAuth(u, ld) ==
    IF ld THEN "loading"
    ELSE IF u = NoUser THEN "navigate"
    ELSE "children"

\* navigate(to, { replace: true }) and navigate(to) on the history stack.
Replace(hist, to) == [hist EXCEPT ![Len(hist)] = to]
Push(hist, to) ==
    LET h == Append(hist, to)
    IN  IF Len(h) > MaxHistory THEN Tail(h) ELSE h

\* Mutant: the gate's redirect pushes a history entry.
GateNavigate_Push(loc, hist, u, ld) ==
    IF loc = Dashboard /\ RequireAuth(u, ld) = "navigate"
        THEN [location |-> AuthRoute, history |-> Push(hist, AuthRoute), call |-> "replace"]
        ELSE [location |-> loc, history |-> hist, call |-> "none"]

\* The gate on the dashboard route: <Navigate to="/auth" replace />.
GateNavigate(loc, hist, u, ld) ==
    IF loc = Dashboard /\ RequireAuth(u, ld) = "navigate"
        THEN [location |-> AuthRoute, history |-> Replace(hist, AuthRoute), call |-> "replace"]
        ELSE [location |-> loc, history |-> hist, call |-> "none"]

\* The sign-in page's effect: navigate("/") once a user is known.
AuthPageNavigate(loc, hist, u, ld) ==
    IF loc = AuthRoute /\ ~ld /\ u # NoUser
        THEN [location |-> Dashboard, history |-> Push(hist, Dashboard), call |-> "push"]
        ELSE [location |-> loc, history |-> hist, call |-> "none"]

\* The route rendered at loc for session (u, ld), after the effects of that
\* render have run. A gate redirect lands on the sign-in page without a
\* user, a sign-in page redirect lands on the gate with one: one step settles.
Settle(loc, hist, u, ld) ==
    IF loc = Dashboard THEN GateNavigate(loc, hist, u, ld)
    ELSE AuthPageNavigate(loc, hist, u, ld)

\* ---------------------------------------------------------- database calls
ValidationError == "Please enter both company and role."
AuthRequiredError == "You must be logged in to add or edit internships."
SaveError == "Failed to save internship. Please try again."
DeleteError == "Failed to delete internship. Please try again."

\* editingId when no record is being edited (null).
NoId == 0

\* Mutant: the path names one fixed user.
CollectionPath_Fixed(uid) == <<"users", "u2", "internships">>

\* collection(db, "users", uid, "internships")
CollectionPath(uid) == <<"users", uid, "internships">>

\* A call that carries no data.
NoData == [none |-> TRUE]

\* The calls handleSubmit and handleDelete make.  i is the identifier of the
\* document: the one addDoc generates, or the one the document reference
\* names.  awaited says that the component that made the call is still
\* there to run the code after its await.
AddDoc(uid, i, c, r, st, n) ==
    [op |-> "addDoc", path |-> CollectionPath(uid), id |-> i, awaited |-> TRUE,
     data |-> [company |-> Trim(c), role |-> Trim(r), status |-> st,
               notes |-> Trim(n), createdAt |-> ServerTimestamp]]

\* Mutant: the update sends createdAt as the creation does.
UpdateDoc_WithCreatedAt(uid, i, c, r, st, n) ==
    [op |-> "updateDoc", path |-> CollectionPath(uid), id |-> i, awaited |-> TRUE,
     data |-> [company |-> Trim(c), role |-> Trim(r), status |-> st,
               notes |-> Trim(n), createdAt |-> ServerTimestamp]]

UpdateDoc(uid, i, c, r, st, n) ==
    [op |-> "updateDoc", path |-> CollectionPath(uid), id |-> i, awaited |-> TRUE,
     data |-> [company |-> Trim(c), role |-> Trim(r), status |-> st,
               notes |-> Trim(n)]]

DeleteDoc(uid, i) ==
    [op |-> "deleteDoc", path |-> CollectionPath(uid), id |-> i, awaited |-> TRUE,
     data |-> NoData]

\* The data of a call with the sentinel replaced by ts.
Resolved(data, ts) ==
    [f \in DOMAIN data |->
        IF f = "createdAt" /\ data[f] = ServerTimestamp THEN ts ELSE data[f]]

\* updateDoc sets the fields it is given and leaves the others.
Merged(d, data) ==
    [f \in DOMAIN d \cup DOMAIN data |-> IF f \in DOMAIN data THEN data[f] ELSE d[f]]

\* A collection after call c wrote to it, the server timestamp being ts:
\* addDoc creates the document, updateDoc changes an existing one,
\* deleteDoc removes it.
Written(coll, c, ts) ==
    CASE c.op = "addDoc" -> [coll EXCEPT ![c.id] = Resolved(c.data, ts)]
      [] c.op = "updateDoc" ->
            IF coll[c.id] = Absent THEN coll
            ELSE [coll EXCEPT ![c.id] = Merged(@, Resolved(c.data, ts))]
      [] c.op = "deleteDoc" -> [coll EXCEPT ![c.id] = Absent]

\* What the client sees of the collection at path while the calls cs are in
\* flight: the server's documents with the pending writes applied in issue
\* order, their server timestamps still pending.
RECURSIVE LocalView(_, _, _)
LocalView(coll, path, cs) ==
    IF cs = <<>> THEN coll
    ELSE LocalView(IF Head(cs).path = path THEN Written(coll, Head(cs), ServerTimestamp) ELSE coll,
                   path, Tail(cs))

\* The server rejects an update of a document that does not exist.
Accepts(coll, c) == c.op = "updateDoc" => coll[c.id] # Absent

\* The calls in flight once the component that made them is unmounted.
Orphaned(cs) == [k \in 1..Len(cs) |-> [cs[k] EXCEPT !.awaited = FALSE]]

\* ------------------------------------------------------------------ state
VARIABLES
    user, loading,            \* the session observable
    location, history,        \* the router
    lastNavigate,             \* the router call of the last step: none, replace, push
    mounted,                  \* whether the dashboard component is mounted
    listeners,                \* live snapshot listeners, per user namespace
    collections,              \* the database: each user's collection
    internships, loadingList, error,
    statusFilter, searchTerm, sortOption,
    totalCount, statusCounts, sortedInternships,  \* what the last render shows
    crashed,                  \* a render threw: the page is blank
    company, role, status, notes,                 \* the form's fields
    isEditing, editingId,                         \* the form's mode
    saving,                                       \* a submission is under way
    calls,                    \* the database calls in flight, in issue order
    rulesDeny                 \* the database rejects this client's writes

sessionVars == <<user, loading>>
routeVars == <<location, history>>
\* A step that renders no route makes no router call.
NoNavigate == lastNavigate' = "none"
selectionVars == <<statusFilter, searchTerm, sortOption>>
viewVars == <<totalCount, statusCounts, sortedInternships, crashed>>
fieldVars == <<company, role, status, notes>>
formVars == <<company, role, status, notes, isEditing, editingId>>
vars == <<user, loading, location, history, lastNavigate, mounted, listeners, collections,
          internships, loadingList, error, statusFilter, searchTerm, sortOption,
          totalCount, statusCounts, sortedInternships, crashed,
          company, role, status, notes, isEditing, editingId, saving, calls, rulesDeny>>

\* The render that follows a state change: the derived data is recomputed
\* from the new state (once: v is bound to its value).
Render(items, filter, term, option) ==
    \E v \in {DeriveView(items, filter, term, option)} :
        /\ internships' = v.internships
        /\ totalCount' = v.totalCount
        /\ statusCounts' = v.statusCounts
        /\ sortedInternships' = v.sortedInternships
        /\ crashed' = FALSE

\* Mutant: resetForm leaves the status select as it is.
ResetForm_KeepsStatus ==
    /\ company' = <<>>
    /\ role' = <<>>
    /\ status' = status
    /\ notes' = <<>>
    /\ isEditing' = FALSE
    /\ editingId' = NoId

\* Mutant: resetForm leaves editingId as it is.
ResetForm_KeepsEditingId ==
    /\ company' = <<>>
    /\ role' = <<>>
    /\ status' = "applied"
    /\ notes' = <<>>
    /\ isEditing' = FALSE
    /\ editingId' = editingId

\* resetForm
ResetForm ==
    /\ company' = <<>>
    /\ role' = <<>>
    /\ status' = "applied"
    /\ notes' = <<>>
    /\ isEditing' = FALSE
    /\ editingId' = NoId

\* The dashboard's useState initial values (also kept while it is unmounted).
FreshDashboard ==
    /\ loadingList' = TRUE
    /\ error' = NoError
    /\ statusFilter' = "all"
    /\ searchTerm' = <<>>
    /\ sortOption' = "newest"
    /\ Render(<<>>, "all", <<>>, "newest")
    /\ ResetForm
    /\ saving' = FALSE

NoListeners == [u \in Users |-> 0]
\* Mutant: the effect returns no cleanup.
Unsubscribed_Leak(ls, u) == ls

\* unsub() releases the listener; after an error there is none left to release.
Unsubscribed(ls, u) == IF u = NoUser \/ ls[u] = 0 THEN ls ELSE [ls EXCEPT ![u] = @ - 1]
Subscribed(ls, u) == IF u = NoUser THEN ls ELSE [ls EXCEPT ![u] = @ + 1]

\* The subscription effect for user u, started from dashboard state
\* (items, ll): without a user it empties the list, with one it listens.
EffectInternships(u, items) == IF u = NoUser THEN <<>> ELSE items
EffectLoadingList(u, ll) == IF u = NoUser THEN FALSE ELSE ll

\* The component tree after the session became (u, ld) with the router at
\* (loc, hist): the route settles, and the dashboard is mounted, kept
\* (its effect re-run when the user changed) or unmounted (its listener
\* released by the effect's cleanup).  The calls an unmounted dashboard left
\* in flight go on without it.
ShowRoute(loc, hist, u, ld) ==
    LET nav == Settle(loc, hist, u, ld)
        shown == nav.location = Dashboard /\ RequireAuth(u, ld) = "children"
        kept == mounted /\ loc = Dashboard /\ nav.location = Dashboard /\ shown
        released == IF mounted THEN Unsubscribed(listeners, user) ELSE listeners
    IN  /\ location' = nav.location
        /\ history' = nav.history
        /\ lastNavigate' = nav.call
        /\ mounted' = shown
        /\ IF kept
             THEN IF u = user
                    THEN UNCHANGED <<listeners, internships, loadingList, error,
                                     selectionVars, viewVars, formVars, saving, calls>>
                    ELSE /\ listeners' = Subscribed(released, u)
                         /\ loadingList' = EffectLoadingList(u, loadingList)
                         /\ Render(EffectInternships(u, internships),
                                   statusFilter, searchTerm, sortOption)
                         /\ UNCHANGED <<error, selectionVars, formVars, saving, calls>>
             ELSE /\ listeners' = IF shown THEN Subscribed(released, u) ELSE released
                  /\ FreshDashboard
                  /\ calls' = IF mounted THEN Orphaned(calls) ELSE calls

\* A render that throws: no error boundary catches the error, so React
\* unmounts the whole tree.  The effect's cleanup releases the listener, the
\* component's state is gone, and the calls in flight go on without it.
RenderCrash ==
    /\ crashed' = TRUE
    /\ mounted' = FALSE
    /\ listeners' = Unsubscribed(listeners, user)
    /\ internships' = <<>>
    /\ totalCount' = 0
    /\ statusCounts' = [s \in InternshipStatus |-> 0]
    /\ sortedInternships' = <<>>
    /\ loadingList' = TRUE
    /\ error' = NoError
    /\ statusFilter' = "all"
    /\ searchTerm' = <<>>
    /\ sortOption' = "newest"
    /\ ResetForm
    /\ saving' = FALSE
    /\ calls' = Orphaned(calls)
    /\ NoNavigate
    /\ UNCHANGED <<sessionVars, routeVars, collections, rulesDeny>>

\* ---------------------------------------------------------------- actions
\* The auth collaborator reports the session: first resolution, sign-in,
\* sign-out or a change of user.
AuthStateChanged(u) ==
    /\ ~crashed
    /\ loading \/ u # user
    /\ user' = u
    /\ loading' = FALSE
    /\ ShowRoute(location, history, u, FALSE)
    /\ UNCHANGED <<collections, rulesDeny>>

\* The browser's back button.
GoBack ==
    /\ ~crashed
    /\ Len(history) > 1
    /\ ShowRoute(history[Len(history) - 1], SubSeq(history, 1, Len(history) - 1),
                 user, loading)
    /\ UNCHANGED <<sessionVars, collections, rulesDeny>>

\* Mutant: a one-time read: only the first snapshot is delivered.
OnSnapshot_Once(u) ==
    /\ mounted
    /\ listeners[u] > 0
    /\ loadingList
    /\ loadingList' = FALSE
    /\ Render(MapSnapshot(SnapshotDocs(LocalView(collections[u], CollectionPath(u), calls))),
              statusFilter, searchTerm, sortOption)
    /\ NoNavigate
    /\ UNCHANGED <<sessionVars, routeVars, mounted, listeners, collections, rulesDeny,
                   error, selectionVars, formVars, saving, calls>>

\* Mutant: the snapshot is merged into the cache: the cached records it
\* does not contain stay, in front of its own.
OnSnapshot_Merge(u) ==
    /\ mounted
    /\ listeners[u] > 0
    /\ \E items \in {MapSnapshot(SnapshotDocs(LocalView(collections[u], CollectionPath(u),
                                                         calls)))} :
           LET Gone(x) == \A k \in 1..Len(items) : items[k].id # x.id
           IN  /\ loadingList' = FALSE
               /\ Render(SelectSeq(internships, Gone) \o items,
                         statusFilter, searchTerm, sortOption)
               /\ NoNavigate
               /\ UNCHANGED <<sessionVars, routeVars, mounted, listeners, collections,
                              rulesDeny, error, selectionVars, formVars, saving, calls>>

\* The success callback of onSnapshot for a live listener on u's
\* collection: the snapshot is the client's view of that collection.
OnSnapshot(u) ==
    /\ mounted
    /\ listeners[u] > 0
    /\ \E view \in {LocalView(collections[u], CollectionPath(u), calls)} :
       \E docs \in {SnapshotDocs(view)} :
       \E items \in {MapSnapshot(docs)} :
           IF RenderThrows(user, loading, items, FALSE, statusFilter, searchTerm, sortOption)
             THEN RenderCrash
             ELSE /\ loadingList' = FALSE
                  /\ Render(items, statusFilter, searchTerm, sortOption)
                  /\ NoNavigate
                  /\ UNCHANGED <<sessionVars, routeVars, mounted, listeners, collections,
                                 rulesDeny, error, selectionVars, formVars, saving, calls>>

\* The error callback of onSnapshot: the listener is over after an error.
OnSnapshotError(u) ==
    /\ mounted
    /\ listeners[u] > 0
    /\ error' = LoadError
    /\ loadingList' = FALSE
    /\ listeners' = Unsubscribed(listeners, u)
    /\ Render(internships, statusFilter, searchTerm, sortOption)
    /\ NoNavigate
    /\ UNCHANGED <<sessionVars, routeVars, mounted, collections, rulesDeny, selectionVars,
                   formVars, saving, calls>>

SetStatusFilter(f) ==
    /\ mounted
    /\ PageRendered(user, loading)
    /\ IF RenderThrows(user, loading, internships, loadingList, f, searchTerm, sortOption)
         THEN RenderCrash
         ELSE /\ statusFilter' = f
              /\ Render(internships, f, searchTerm, sortOption)
              /\ NoNavigate
              /\ UNCHANGED <<sessionVars, routeVars, mounted, listeners, collections,
                             rulesDeny, loadingList, error, searchTerm, sortOption, formVars, saving, calls>>

SetSearchTerm(t) ==
    /\ mounted
    /\ PageRendered(user, loading)
    /\ IF RenderThrows(user, loading, internships, loadingList, statusFilter, t, sortOption)
         THEN RenderCrash
         ELSE /\ searchTerm' = t
              /\ Render(internships, statusFilter, t, sortOption)
              /\ NoNavigate
              /\ UNCHANGED <<sessionVars, routeVars, mounted, listeners, collections,
                             rulesDeny, loadingList, error, statusFilter, sortOption, formVars, saving, calls>>

SetSortOption(o) ==
    /\ mounted
    /\ PageRendered(user, loading)
    /\ IF RenderThrows(user, loading, internships, loadingList, statusFilter, searchTerm, o)
         THEN RenderCrash
         ELSE /\ sortOption' = o
              /\ Render(internships, statusFilter, searchTerm, o)
              /\ NoNavigate
              /\ UNCHANGED <<sessionVars, routeVars, mounted, listeners, collections,
                             rulesDeny, loadingList, error, statusFilter, searchTerm, formVars, saving, calls>>

\* Another session of the same account (or the console) writes or deletes
\* the document with identifier i in u's collection.
ExternalWrite(u, i, d) ==
    /\ collections[u][i] # d
    /\ collections' = [collections EXCEPT ![u][i] = d]
    /\ NoNavigate
    /\ UNCHANGED <<sessionVars, routeVars, mounted, listeners, internships,
                   loadingList, error, selectionVars, viewVars, formVars, saving, calls,
                   rulesDeny>>

\* What a handler's step leaves alone: the session, the router, the
\* subscription and the database.
HandlerFrame ==
    /\ NoNavigate
    /\ UNCHANGED <<sessionVars, routeVars, mounted, listeners, collections, rulesDeny>>

\* A handler that does not touch the list part of the dashboard.
ListFrame == UNCHANGED <<internships, loadingList, selectionVars, viewVars>>

\* The form's inputs (onChange).
SetCompany(c) ==
    /\ mounted
    /\ PageRendered(user, loading)
    /\ company' = c
    /\ HandlerFrame /\ ListFrame
    /\ UNCHANGED <<role, status, notes, isEditing, editingId, saving, calls, error>>

SetRole(r) ==
    /\ mounted
    /\ PageRendered(user, loading)
    /\ role' = r
    /\ HandlerFrame /\ ListFrame
    /\ UNCHANGED <<company, status, notes, isEditing, editingId, saving, calls, error>>

SetStatus(st) ==
    /\ mounted
    /\ PageRendered(user, loading)
    /\ status' = st
    /\ HandlerFrame /\ ListFrame
    /\ UNCHANGED <<company, role, notes, isEditing, editingId, saving, calls, error>>

SetNotes(n) ==
    /\ mounted
    /\ PageRendered(user, loading)
    /\ notes' = n
    /\ HandlerFrame /\ ListFrame
    /\ UNCHANGED <<company, role, status, isEditing, editingId, saving, calls, error>>

\* Mutant: the submit button is never disabled.
SubmitEnabled_Always(sv) == TRUE

\* The submit button is disabled while saving.
SubmitEnabled(sv) == ~sv

\* The outcomes of the test !v.trim() on a form field.
TypeError == "TypeError"
Blank == "blank"
Filled == "filled"

\* !v.trim(): a value that is not a string has no trim method, and the
\* call raises a TypeError.
BlankTest(v) ==
    IF ~IsString(v) THEN TypeError
    ELSE IF Trim(v) = <<>> THEN Blank ELSE Filled

\* The validation (!company.trim() || !role.trim()) throws: on company, or
\* on role when company is not blank and the || goes on to it.
ValidationThrows(c, r) ==
    \/ BlankTest(c) = TypeError
    \/ BlankTest(c) = Filled /\ BlankTest(r) = TypeError

\* The validation rejects the form.
ValidationRejects(c, r) ==
    /\ ~ValidationThrows(c, r)
    /\ BlankTest(c) = Blank \/ BlankTest(r) = Blank

\* The identifiers addDoc can generate in u's collection: those of no
\* document of the collection and of no call in flight.
FreeIds(u, cs) ==
    {i \in Ids : /\ \A v \in Users : v = u => collections[v][i] = Absent
                 /\ \A k \in 1..Len(cs) :
                        ~(cs[k].path = CollectionPath(u) /\ cs[k].id = i)}

\* The call handleSubmit makes for user u from the form (c, r, st, n) in
\* mode (ed, eid): an update of the edited record, or a creation under a
\* generated identifier i.
SubmitCall(u, c, r, st, n, ed, eid, i) ==
    IF ed /\ eid # NoId THEN UpdateDoc(u, eid, c, r, st, n)
    ELSE AddDoc(u, i, c, r, st, n)

\* handleSubmit up to its await: validation, the signed-in check, then the
\* call.  The number of documents is capped: a creation needs a free
\* identifier (with none free, the step is left out).  A validation that
\* throws ends the handler after setError(null), outside the try; a
\* notes.trim() that throws is inside it, and the catch and the finally
\* run before the handler returns.
HandleSubmit ==
    /\ mounted
    /\ PageRendered(user, loading)
    /\ SubmitEnabled(saving)
    /\ IF ValidationThrows(company, role)
         THEN /\ error' = NoError
              /\ UNCHANGED <<saving, calls>>
         ELSE IF ValidationRejects(company, role)
         THEN /\ error' = ValidationError
              /\ UNCHANGED <<saving, calls>>
         ELSE IF ~SignedIn(user)
                THEN /\ error' = AuthRequiredError
                     /\ UNCHANGED <<saving, calls>>
         ELSE IF ~IsString(notes)
                THEN /\ error' = SaveError
                     /\ saving' = FALSE
                     /\ UNCHANGED calls
                ELSE /\ error' = NoError
                     /\ saving' = TRUE
                     /\ \E i \in IF isEditing /\ editingId # NoId THEN {editingId}
                                 ELSE FreeIds(user, calls) :
                            calls' = Append(calls,
                                SubmitCall(user, company, role, status, notes,
                                           isEditing, editingId, i))
    /\ HandlerFrame /\ ListFrame
    /\ UNCHANGED formVars

\* handleEdit for the k-th record of the rendered list.
HandleEdit(k) ==
    /\ mounted
    /\ PageRendered(user, loading)
    /\ ~loadingList
    /\ k \in 1..Len(sortedInternships)
    /\ LET item == sortedInternships[k]
       IN  /\ company' = item.company
           /\ role' = item.role
           /\ status' = item.status
           /\ notes' = Coalesce(item.notes, MissingString, <<>>)
           /\ isEditing' = TRUE
           /\ editingId' = item.id
    /\ HandlerFrame /\ ListFrame
    /\ UNCHANGED <<saving, calls, error>>

\* handleCancelEdit: the Cancel button is there in edit mode only.
HandleCancelEdit ==
    /\ mounted
    /\ PageRendered(user, loading)
    /\ isEditing
    /\ ResetForm
    /\ HandlerFrame /\ ListFrame
    /\ UNCHANGED <<saving, calls, error>>

\* Mutant: handleDelete does not look at the answer to window.confirm.
DeleteCalls_Unconfirmed(cs, u, i, confirmed) ==
    IF ~SignedIn(u) THEN cs ELSE Append(cs, DeleteDoc(u, i))

\* The calls in flight after handleDelete(i) for user u, the answer to
\* window.confirm being confirmed.
DeleteCalls(cs, u, i, confirmed) ==
    IF ~SignedIn(u) THEN cs
    ELSE IF ~confirmed THEN cs
    ELSE Append(cs, DeleteDoc(u, i))

\* Mutant: handleDelete takes the record out of the list at once.
HandleDelete_Optimistic(i, confirmed) ==
    /\ mounted
    /\ PageRendered(user, loading)
    /\ ~loadingList
    /\ \E k \in 1..Len(sortedInternships) : sortedInternships[k].id = i
    /\ Cardinality({k \in 1..Len(calls) : calls[k].op = "deleteDoc"}) < MaxDeletes
    /\ calls' = DeleteCalls(calls, user, i, confirmed)
    /\ Render(IF calls' = calls THEN internships
              ELSE SelectSeq(internships, LAMBDA r : r.id # i),
              statusFilter, searchTerm, sortOption)
    /\ HandlerFrame
    /\ UNCHANGED <<loadingList, selectionVars, formVars, saving, error>>

\* handleDelete up to its await, from the Delete button of the listed
\* record i.
HandleDelete(i, confirmed) ==
    /\ mounted
    /\ PageRendered(user, loading)
    /\ ~loadingList
    /\ \E k \in 1..Len(sortedInternships) : sortedInternships[k].id = i
    /\ Cardinality({k \in 1..Len(calls) : calls[k].op = "deleteDoc"}) < MaxDeletes
    /\ calls' = DeleteCalls(calls, user, i, confirmed)
    /\ HandlerFrame /\ ListFrame
    /\ UNCHANGED <<formVars, saving, error>>

\* The database's answer to call c.
Rejects(c) == rulesDeny \/ ~Accepts(collections[c.path[2]], c)

\* Mutant: resetForm runs in the finally, after a failure too.
AfterSubmit_ResetsAlways(rejected) ==
    /\ saving' = FALSE
    /\ ResetForm
    /\ error' = IF rejected THEN SaveError ELSE error

\* Mutant: setSaving(false) stands at the end of the try, not in a finally.
AfterSubmit_NoFinally(rejected) ==
    IF rejected
      THEN error' = SaveError /\ UNCHANGED <<formVars, saving>>
      ELSE saving' = FALSE /\ ResetForm /\ UNCHANGED error

\* handleSubmit after its await: resetForm on success, the error message in
\* the catch, setSaving(false) in the finally.
AfterSubmit(rejected) ==
    /\ saving' = FALSE
    /\ IF rejected
         THEN error' = SaveError /\ UNCHANGED formVars
         ELSE ResetForm /\ UNCHANGED error

\* handleDelete after its await: nothing on success, the error message in
\* the catch.
AfterDelete(rejected) ==
    /\ error' = IF rejected THEN DeleteError ELSE error
    /\ UNCHANGED <<formVars, saving>>

\* The database answers the oldest call in flight: an accepted write
\* reaches the collection with the server's time t, and the handler that
\* awaits the call goes on.
CallSettled(t) ==
    /\ calls # <<>>
    /\ LET c == Head(calls)
           u == c.path[2]
       IN  /\ collections' = IF Rejects(c) THEN collections
                             ELSE [collections EXCEPT ![u] = Written(@, c, Timestamp(t))]
           /\ IF ~c.awaited THEN UNCHANGED <<formVars, saving, error>>
              ELSE IF c.op = "deleteDoc" THEN AfterDelete(Rejects(c))
              ELSE AfterSubmit(Rejects(c))
    /\ calls' = Tail(calls)
    /\ NoNavigate /\ ListFrame
    /\ UNCHANGED <<sessionVars, routeVars, mounted, listeners, rulesDeny>>

\* ------------------------------------------------------- bounded inputs
\* What the user types in the search box.
SearchTerms == {<<>>, <<" ">>, <<" ", "A">>, <<"a", " ", "b">>}

\* Documents of the client's view that differ in company and creation
\* time, the creation of some still pending; and one whose company differs
\* from "a" in a soft hyphen only.
SortDocs ==
    {[company |-> c, role |-> <<"b">>, status |-> "applied",
      notes |-> MissingString, createdAt |-> t] :
        c \in {<<"a">>, <<"A">>, <<"b">>},
        t \in {ServerTimestamp, Timestamp(1), Timestamp(2)}}
    \cup {[company |-> <<"a", SoftHyphen>>, role |-> <<"b">>, status |-> "applied",
           notes |-> MissingString, createdAt |-> Timestamp(1)]}

\* Stored documents that differ in status and company, and one that the
\* search term "a" reaches through its notes only; "ghosted" is a stored
\* status outside the enumeration.
FilterDocs ==
    {[company |-> c, role |-> <<"b">>, status |-> st,
      notes |-> MissingString, createdAt |-> Timestamp(1)] :
        c \in {<<"a">>, MissingString},
        st \in {"offer", "ghosted", MissingStatus}}
    \cup {[company |-> MissingString, role |-> <<"b">>, status |-> "offer",
           notes |-> <<"A">>, createdAt |-> Timestamp(1)]}

\* The documents the whole-application specification stores and writes.
BaseDocs ==
    {[company |-> <<"a">>, role |-> <<"b">>, status |-> "offer",
      notes |-> MissingString, createdAt |-> Timestamp(1)],
     [company |-> <<"b">>, role |-> <<"b">>, status |-> MissingStatus,
      notes |-> <<"A">>, createdAt |-> Null]}

\* Stored documents with the values the snapshot mapping lets through:
\* strings, missing fields, a number for company or notes, a plain number
\* (0 or not) for createdAt.
TotalDocs ==
    {[company |-> c, role |-> <<"b">>, status |-> "offer",
      notes |-> MissingString, createdAt |-> t] :
        c \in {<<"a">>, MissingString, StoredNumber},
        t \in {Null, Timestamp(1), PlainMillis(1), PlainMillis(0)}}
    \cup {[company |-> <<"a">>, role |-> <<"b">>, status |-> "offer",
           notes |-> StoredNumber, createdAt |-> Timestamp(1)]}

\* Stored documents to edit: an offer, a record with a status outside the
\* enumeration and no company, an offer with notes and no company, and a
\* record with a number for company and no role.
EditDocs ==
    {[company |-> <<"a">>, role |-> <<"b">>, status |-> "offer",
      notes |-> MissingString, createdAt |-> Timestamp(1)],
     [company |-> MissingString, role |-> <<"b">>, status |-> "ghosted",
      notes |-> MissingString, createdAt |-> Timestamp(1)],
     [company |-> MissingString, role |-> <<"b">>, status |-> "offer",
      notes |-> <<"A">>, createdAt |-> Timestamp(1)],
     [company |-> StoredNumber, role |-> MissingString, status |-> "offer",
      notes |-> MissingString, createdAt |-> Timestamp(1)]}

CollectionsOver(pool) == [Ids -> pool \cup {Absent}]
EmptyCollection == [i \in Ids |-> Absent]

\* What the user types into the form, and the status the user selects.
CompanyInputs == {<<" ">>, <<"b", " ">>}
RoleInputs == {<<"b">>}
StatusInputs == {"offer"}
NotesInputs == {<<"A", " ">>}
\* The times the server stamps a creation with.
ServerTimes == {2}

\* The document the form specification starts from, and the collections
\* that hold it or nothing.
FormDocs ==
    {[company |-> <<"a">>, role |-> <<"b">>, status |-> "applied",
      notes |-> <<>>, createdAt |-> Timestamp(2)]}
FormCollections ==
    {EmptyCollection} \cup {[EmptyCollection EXCEPT ![1] = d] : d \in FormDocs}

\* ------------------------------------------------------- specifications
\* The dashboard's state right after mounting, loadingList being ll and the
\* form editing record eid (NoId: not editing).
DashboardWith(ll, eid) ==
    /\ internships = <<>>
    /\ error = NoError
    /\ statusFilter = "all"
    /\ searchTerm = <<>>
    /\ sortOption = "newest"
    /\ totalCount = 0
    /\ statusCounts = [s \in InternshipStatus |-> 0]
    /\ sortedInternships = <<>>
    /\ crashed = FALSE
    /\ company = <<>>
    /\ role = <<>>
    /\ status = "applied"
    /\ notes = <<>>
    /\ isEditing = (eid # NoId)
    /\ editingId = eid
    /\ saving = FALSE
    /\ loadingList = ll

DashboardIsFresh == DashboardWith(TRUE, NoId)

\* A page load: the session is resolving, nothing is mounted.
PageLoad ==
    /\ user = NoUser
    /\ loading = TRUE
    /\ \E loc \in {Dashboard, AuthRoute} :
           LET nav == Settle(loc, <<loc>>, NoUser, TRUE)
           IN  /\ location = nav.location
               /\ history = nav.history
               /\ lastNavigate = nav.call
               /\ mounted = (nav.location = Dashboard
                             /\ RequireAuth(NoUser, TRUE) = "children")
    /\ listeners = NoListeners
    /\ DashboardIsFresh
    /\ calls = <<>>
    /\ rulesDeny = FALSE

Init ==
    /\ PageLoad
    /\ collections \in [Users -> CollectionsOver(BaseDocs)]

\* The selections the whole-application specification clicks through.
BaseFilters == {"all", "offer"}
BaseSearchTerms == {<<>>, <<" ", "A">>}
BaseSortOptions == {"newest", "company-az"}

Next ==
    \/ \E u \in Users \cup {NoUser} : AuthStateChanged(u)
    \/ GoBack
    \/ \E u \in Users : OnSnapshot(u)
    \/ \E u \in Users : OnSnapshotError(u)
    \/ \E f \in BaseFilters : SetStatusFilter(f)
    \/ \E t \in BaseSearchTerms : SetSearchTerm(t)
    \/ \E o \in BaseSortOptions : SetSortOption(o)
    \/ \E u \in Users, i \in Ids, d \in BaseDocs \cup {Absent} : ExternalWrite(u, i, d)
    \/ \E c \in CompanyInputs : SetCompany(c)
    \/ \E r \in RoleInputs : SetRole(r)
    \/ \E st \in StatusInputs : SetStatus(st)
    \/ \E n \in NotesInputs : SetNotes(n)
    \/ HandleSubmit
    \/ \E k \in 1..MaxDocs : HandleEdit(k)
    \/ HandleCancelEdit
    \/ \E i \in Ids, confirmed \in BOOLEAN : HandleDelete(i, confirmed)
    \/ \E t \in ServerTimes : CallSettled(t)

Spec == Init /\ [][Next]_vars

\* The dashboard of a signed-in user, just mounted and subscribed, over
\* every collection of the bounded document sets: the state Spec reaches by
\* the first AuthStateChanged on the dashboard route.
InitDerive ==
    /\ user = "u1"
    /\ loading = FALSE
    /\ location = Dashboard
    /\ history = <<Dashboard>>
    /\ lastNavigate = "none"
    /\ mounted = TRUE
    /\ listeners = [NoListeners EXCEPT !["u1"] = 1]
    /\ \E c \in CollectionsOver(SortDocs) \cup CollectionsOver(FilterDocs) :
           collections = [u \in Users |-> IF u = "u1" THEN c ELSE EmptyCollection]
    /\ DashboardIsFresh
    /\ calls = <<>>
    /\ rulesDeny = FALSE

NextDerive ==
    \/ \E u \in Users : OnSnapshot(u)
    \/ \E f \in StatusFilter : SetStatusFilter(f)
    \/ \E t \in SearchTerms : SetSearchTerm(t)
    \/ \E o \in SortOption : SetSortOption(o)

SpecDerive == InitDerive /\ [][NextDerive]_vars

\* The same dashboard over the collections of TotalDocs.
InitTotal ==
    /\ user = "u1"
    /\ loading = FALSE
    /\ location = Dashboard
    /\ history = <<Dashboard>>
    /\ lastNavigate = "none"
    /\ mounted = TRUE
    /\ listeners = [NoListeners EXCEPT !["u1"] = 1]
    /\ \E c \in CollectionsOver(TotalDocs) :
           collections = [u \in Users |-> IF u = "u1" THEN c ELSE EmptyCollection]
    /\ DashboardIsFresh
    /\ calls = <<>>
    /\ rulesDeny = FALSE

NextTotal ==
    \/ \E u \in Users : OnSnapshot(u)
    \/ \E f \in BaseFilters : SetStatusFilter(f)
    \/ \E t \in BaseSearchTerms : SetSearchTerm(t)
    \/ \E o \in SortOption : SetSortOption(o)

SpecTotal == InitTotal /\ [][NextTotal]_vars

\* The dashboard component rendered for a session user (a user or none),
\* its subscription effect run, over the collections of FormCollections;
\* the database admits this client's writes, or rejects them.  The gate
\* never renders the component without a user: that is the component on
\* its own, the form state left in either mode; its page is then the line
\* "You are not logged in." and has no control to act on.
InitForm ==
    /\ user \in {"u1", NoUser}
    /\ loading = FALSE
    /\ location = Dashboard
    /\ history = <<Dashboard>>
    /\ lastNavigate = "none"
    /\ mounted = TRUE
    /\ listeners = Subscribed(NoListeners, user)
    /\ \E c \in FormCollections :
           collections = [u \in Users |-> IF u = user THEN c ELSE EmptyCollection]
    /\ \E eid \in IF user = NoUser THEN Ids \cup {NoId} ELSE {NoId} :
           DashboardWith(EffectLoadingList(user, TRUE), eid)
    /\ calls = <<>>
    /\ rulesDeny \in BOOLEAN

NextForm ==
    \/ \E c \in CompanyInputs : SetCompany(c)
    \/ \E r \in RoleInputs : SetRole(r)
    \/ HandleSubmit
    \/ \E k \in 1..MaxDocs : HandleEdit(k)
    \/ HandleCancelEdit
    \/ \E i \in Ids, confirmed \in BOOLEAN : HandleDelete(i, confirmed)
    \/ \E t \in ServerTimes : CallSettled(t)
    \/ \E u \in Users : OnSnapshot(u)

SpecForm == InitForm /\ [][NextForm]_vars

\* The form filled in, submitted and answered, the collaborator doing its
\* part: a live listener is told of every change of its query's result,
\* and a call in flight is answered.
InitSubmit == InitForm

NextSubmit ==
    \/ \E c \in CompanyInputs : SetCompany(c)
    \/ \E r \in RoleInputs : SetRole(r)
    \/ HandleSubmit
    \/ \E k \in 1..MaxDocs : HandleEdit(k)
    \/ \E t \in ServerTimes : CallSettled(t)
    \/ \E u \in Users : OnSnapshot(u)

SubmitFairness ==
    /\ WF_vars(\E u \in Users : OnSnapshot(u))
    /\ WF_vars(\E t \in ServerTimes : CallSettled(t))

SpecSubmit == InitSubmit /\ [][NextSubmit]_vars /\ SubmitFairness

\* The dashboard of a signed-in user over the collections of EditDocs,
\* whose records differ in status and notes: the user edits them, changes
\* the company, cancels or submits.
InitEdit ==
    /\ user = "u1"
    /\ loading = FALSE
    /\ location = Dashboard
    /\ history = <<Dashboard>>
    /\ lastNavigate = "none"
    /\ mounted = TRUE
    /\ listeners = [NoListeners EXCEPT !["u1"] = 1]
    /\ \E c \in CollectionsOver(EditDocs) :
           collections = [u \in Users |-> IF u = "u1" THEN c ELSE EmptyCollection]
    /\ DashboardIsFresh
    /\ calls = <<>>
    /\ rulesDeny = FALSE

NextEdit ==
    \/ \E u \in Users : OnSnapshot(u)
    \/ \E k \in 1..MaxDocs : HandleEdit(k)
    \/ HandleCancelEdit
    \/ \E c \in CompanyInputs : SetCompany(c)
    \/ HandleSubmit
    \/ \E t \in ServerTimes : CallSettled(t)

SpecEdit == InitEdit /\ [][NextEdit]_vars

\* The session, the gate and the subscription's life cycle from a page
\* load, over every collection of the whole-application documents; the
\* dashboard's selections stay as mounted.
NextGate ==
    \/ \E u \in Users \cup {NoUser} : AuthStateChanged(u)
    \/ GoBack
    \/ \E u \in Users : OnSnapshot(u)
    \/ \E u \in Users : OnSnapshotError(u)

SpecGate == Init /\ [][NextGate]_vars

\* ================================================================ claims
\* ---------------------------------------------- vocabulary of the claims
RECURSIVE SumOver(_, _)
SumOver(f, S) ==
    IF S = {} THEN 0
    ELSE LET x == CHOOSE y \in S : TRUE IN f[x] + SumOver(f, S \ {x})

Occurrences(seq, x) == Cardinality({i \in 1..Len(seq) : seq[i] = x})

\* out holds the records of src, each as often as src does.
IsPermutation(out, src) ==
    /\ Len(out) = Len(src)
    /\ \A i \in 1..Len(src) : Occurrences(out, src[i]) = Occurrences(src, src[i])

Reverse(seq) == [i \in 1..Len(seq) |-> seq[Len(seq) + 1 - i]]

\* Creation time with an unresolved createdAt counting as time zero.
TimeOrZero(r) == IF r.createdAt = Null THEN 0 ELSE r.createdAt[1]

\* Case-insensitive order of two company names.
CompanyAtMost(r, q) == LocaleCompare(ToLowerCase(r.company), ToLowerCase(q.company)) <= 0

InSortOrder(out, option) ==
    \A i, j \in 1..Len(out) :
        i < j =>
            CASE option = "newest" -> TimeOrZero(out[i]) >= TimeOrZero(out[j])
              [] option = "oldest" -> TimeOrZero(out[i]) <= TimeOrZero(out[j])
              [] option = "company-az" -> CompanyAtMost(out[i], out[j])
              [] option = "company-za" -> CompanyAtMost(out[j], out[i])

\* A step that changes the selection (filter, search, sort) and nothing else
\* of the dashboard's own state.
SelectionOnlyStep ==
    /\ selectionVars' # selectionVars
    /\ UNCHANGED <<sessionVars, routeVars, mounted, listeners, collections, rulesDeny,
                   loadingList, error>>

\* C1: the five status counts are computed over the whole cached set: a
\* change of filter, search or sort alone leaves them as they are, and they
\* add up to the total count, which is the number of cached records.
C1_CountsCoverWholeCache ==
    [][ /\ SelectionOnlyStep => statusCounts' = statusCounts
        /\ totalCount' = Len(internships')
        /\ SumOver(statusCounts', InternshipStatus) = totalCount' ]_vars

\* C2: every cached record has a status of the enumeration.
C2_CachedStatusInEnumeration ==
    \A i \in 1..Len(internships) : internships[i].status \in InternshipStatus

\* C3: with filter "all" and an empty search string the derived list is a
\* permutation of the cached set, in the order of the chosen sort option.
C3_AllRecordsInSortOrder ==
    (mounted /\ statusFilter = "all" /\ searchTerm = <<>>) =>
        /\ IsPermutation(sortedInternships, internships)
        /\ InSortOrder(sortedInternships, sortOption)

\* C3 witness: nothing is filtered and the sort has reordered three or two
\* cached records by company.
C3_Witness ==
    /\ mounted /\ statusFilter = "all" /\ searchTerm = <<>>
    /\ sortOption = "company-az"
    /\ Len(internships) >= 2
    /\ sortedInternships # internships

\* C4: under a status filter f other than "all", every derived record has
\* status f and every cached record with status f that matches the search
\* is in the derived list exactly once.
C4_StatusFilterExact ==
    (mounted /\ statusFilter # "all") =>
        /\ \A i \in 1..Len(sortedInternships) :
               sortedInternships[i].status = statusFilter
        /\ \A j \in 1..Len(internships) :
               (internships[j].status = statusFilter
                /\ MatchesSearch(internships[j], searchTerm))
                   => Occurrences(sortedInternships, internships[j]) = 1

\* C4 witness: the filter "offer" keeps one cached record and drops another.
C4_Witness ==
    /\ mounted /\ statusFilter = "offer"
    /\ Len(sortedInternships) >= 1
    /\ Len(sortedInternships) < Len(internships)

\* Case-insensitive containment of the normalized term s in one field.
ContainsIgnoringCase(field, s) == Includes(ToLowerCase(field), s)

InSomeField(r, s) ==
    \/ ContainsIgnoringCase(r.company, s)
    \/ ContainsIgnoringCase(r.role, s)
    \/ ContainsIgnoringCase(r.notes, s)

JoinedFields(r) == r.company \o <<Space>> \o r.role \o <<Space>> \o r.notes

HasSpace(s) == \E i \in 1..Len(s) : s[i] = Space

\* C5 as claimed: with a non-empty normalized search term, every derived
\* record has the term in its company, in its role or in its notes.
C5_TermInOneField ==
    (mounted /\ NormalizedSearch(searchTerm) # <<>>) =>
        \A i \in 1..Len(sortedInternships) :
            InSomeField(sortedInternships[i], NormalizedSearch(searchTerm))

\* C5 as amended: with a non-empty normalized search term, every derived
\* record has the term, ignoring case, in its company, a space, its role, a
\* space and its notes joined (so a match may span two fields); a term
\* without a space is then in one of the three fields.
C5_TermInJoinedFields ==
    (mounted /\ NormalizedSearch(searchTerm) # <<>>) =>
        \A i \in 1..Len(sortedInternships) :
            LET r == sortedInternships[i]
                s == NormalizedSearch(searchTerm)
            IN  /\ ContainsIgnoringCase(JoinedFields(r), s)
                /\ ~HasSpace(s) => InSomeField(r, s)

\* C5 witness: a typed term that normalizes to "a" keeps a record and drops
\* another.
C5_Witness ==
    /\ mounted /\ searchTerm = <<" ", "A">>
    /\ Len(sortedInternships) >= 1
    /\ Len(sortedInternships) < Len(internships)

\* C6: "newest" lists by creation time, latest first, and "oldest" earliest
\* first, an unresolved createdAt counting as time zero; so under "newest"
\* no pending record comes before a record with a resolved timestamp.
C6_CreationTimeOrder ==
    mounted =>
        /\ sortOption = "newest" =>
               \A i, j \in 1..Len(sortedInternships) :
                   i < j =>
                       /\ TimeOrZero(sortedInternships[i]) >= TimeOrZero(sortedInternships[j])
                       /\ ~(sortedInternships[i].createdAt = Null
                            /\ sortedInternships[j].createdAt # Null)
        /\ sortOption = "oldest" =>
               \A i, j \in 1..Len(sortedInternships) :
                   i < j =>
                       TimeOrZero(sortedInternships[i]) <= TimeOrZero(sortedInternships[j])

\* C6 witness: the snapshot lists a pending record first, and "newest" shows
\* it after a record with a resolved timestamp.
C6_Witness ==
    /\ mounted /\ sortOption = "newest"
    /\ Len(sortedInternships) >= 2
    /\ internships[1].createdAt = Null
    /\ sortedInternships[1].createdAt # Null
    /\ sortedInternships[Len(sortedInternships)].createdAt = Null

\* The filtered set of the current render.
CurrentFiltered == FilteredInternships(internships, statusFilter, searchTerm)

DistinctCompanies(recs) ==
    \A i, j \in 1..Len(recs) : i # j => recs[i].company # recs[j].company

\* No two records tie under the comparator of the company options.
NoCompanyTies(recs) ==
    \A i, j \in 1..Len(recs) :
        i # j => LocaleCompare(ToLowerCase(recs[i].company),
                               ToLowerCase(recs[j].company)) # 0

\* C7 as claimed: when the company names of the filtered set are pairwise
\* distinct, the "company-za" list is the reverse of the "company-az" list,
\* and "company-az" is ascending by case-insensitive comparison.
C7_ReverseWhenNamesDistinct ==
    mounted =>
        /\ (sortOption = "company-za" /\ DistinctCompanies(CurrentFiltered)) =>
               sortedInternships = Reverse(SortedInternships(CurrentFiltered, "company-az"))
        /\ sortOption = "company-az" => InSortOrder(sortedInternships, "company-az")

\* C7 as amended: when no two company names of the filtered set compare
\* equal under the comparator (localeCompare of the lower-cased names), the
\* "company-za" list is the reverse of the "company-az" list, and
\* "company-az" is ascending by case-insensitive comparison.
C7_ReverseWhenNoNamesTie ==
    mounted =>
        /\ (sortOption = "company-za" /\ NoCompanyTies(CurrentFiltered)) =>
               sortedInternships = Reverse(SortedInternships(CurrentFiltered, "company-az"))
        /\ sortOption = "company-az" => InSortOrder(sortedInternships, "company-az")

\* C7 witness: "company-za" shows two records whose names do not tie, in
\* the order opposite to the snapshot's.
C7_Witness ==
    /\ mounted /\ sortOption = "company-za"
    /\ Len(sortedInternships) >= 2
    /\ NoCompanyTies(sortedInternships)
    /\ sortedInternships = Reverse(internships)

\* C8: a change of filter, search or sort re-derives the view and leaves the
\* cached set as it was: the same records in the same order.
C8_SelectionLeavesCache ==
    [][(mounted /\ SelectionOnlyStep) => internships' = internships]_vars

\* C8 witness: after a change of the sort option the view is a reordering of
\* the cache, which still is in the snapshot's order.
C8_Witness ==
    /\ mounted /\ sortOption = "oldest"
    /\ Len(internships) >= 2
    /\ sortedInternships # internships
    /\ internships = MapSnapshot(SnapshotDocs(collections[user]))

\* C9: the gate issues its redirect only when the session is settled and no
\* user is signed in: never while the session is resolving.
C9_NoRedirectWhileResolving ==
    /\ loading => lastNavigate # "replace"
    /\ lastNavigate = "replace" => (~loading /\ user = NoUser /\ location = AuthRoute)

\* C9 witness: the page was loaded on the dashboard route, the session
\* settled without a user, and the gate redirected.
C9_Witness ==
    /\ lastNavigate = "replace"
    /\ ~loading /\ user = NoUser
    /\ history = <<AuthRoute>>

\* C10: once the session is settled the gate shows the dashboard exactly
\* when a user is signed in; each time the session becomes settled and
\* signed out on the gated route (at first resolution or by a sign-out) the
\* gate replaces the current history entry by /auth and the dashboard is
\* gone; the gate navigates in no other case.
C10_GateTransitions ==
    [][ /\ (location' = Dashboard /\ ~loading') => (mounted' <=> user' # NoUser)
        /\ (location = Dashboard /\ (loading \/ user # NoUser)
            /\ ~loading' /\ user' = NoUser)
               => /\ lastNavigate' = "replace"
                  /\ location' = AuthRoute
                  /\ history' = Replace(history, AuthRoute)
                  /\ ~mounted'
        /\ lastNavigate' = "replace"
               => (~loading' /\ user' = NoUser /\ Len(history') <= Len(history)) ]_vars

\* C10 witness: a user signed in on the sign-in page, reached the dashboard,
\* signed out there, and the gate replaced the dashboard's history entry.
C10_Witness ==
    /\ lastNavigate = "replace"
    /\ history = <<AuthRoute, AuthRoute>>
    /\ ~mounted /\ user = NoUser

IsSubmitCall(c) == c.op \in {"addDoc", "updateDoc"}

\* s has no space at either end and is not empty.
TrimmedNonEmpty(s) == s # <<>> /\ Head(s) # Space /\ s[Len(s)] # Space

\* C12: a submission whose company or role is empty after trimming makes
\* no database call, sets the validation message and leaves the form
\* fields, the edit mode and saving as they were; and every create or
\* update call in flight carries a trimmed, non-empty company and role.
C12_BlankSubmissionRejected ==
    [][/\ ((Trim(company) = <<>> \/ Trim(role) = <<>>) /\ HandleSubmit)
            => /\ calls' = calls
               /\ error' = ValidationError
               /\ UNCHANGED <<formVars, saving>>
       /\ \A k \in 1..Len(calls') :
            IsSubmitCall(calls'[k])
                => /\ TrimmedNonEmpty(calls'[k].data.company)
                   /\ TrimmedNonEmpty(calls'[k].data.role)]_vars

\* A company of spaces only was turned down while a record was being
\* edited, and the form is still as typed.
C12_Witness ==
    /\ user # NoUser
    /\ error = ValidationError
    /\ company = <<Space>>
    /\ isEditing
    /\ ~saving
    /\ calls = <<>>

\* The snapshot a live listener would deliver now.
CurrentSnapshot(u) ==
    MapSnapshot(SnapshotDocs(LocalView(collections[u], CollectionPath(u), calls)))

\* C13: the handlers never write the cached record set: a step that
\* changes it is a snapshot delivery, which leaves the form, saving, the
\* error, the calls in flight and the database as they are; so no step of
\* handleSubmit or handleDelete, before or after the await, changes it.
C13_OnlySnapshotsWriteCache ==
    [][internships' # internships
        => /\ UNCHANGED <<formVars, saving, error, calls, collections>>
           /\ \E u \in Users : listeners[u] > 0 /\ internships' = CurrentSnapshot(u)]_vars

\* A creation went through after the last delivery: the collection holds
\* more documents than the cache, which still shows the earlier snapshot.
C13_Witness ==
    /\ user # NoUser
    /\ ~loadingList
    /\ calls = <<>>
    /\ ~saving
    /\ TotalCount(internships) < Cardinality({i \in Ids : collections[user][i] # Absent})

\* C14: at every moment at most one snapshot subscription is live, and it
\* is the mounted dashboard's subscription to the current user's
\* collection: a change of user or an unmount releases the previous one
\* before the next is established, so none is left to deliver into the
\* cache after its release.
C14_OneLiveSubscription ==
    /\ SumOver(listeners, Users) <= 1
    /\ \A u \in Users : listeners[u] > 0 => mounted /\ u = user

\* The user changed from u1 to u2 under a mounted dashboard: the cache
\* still shows u1's snapshot, and the one live listener is u2's.
C14_Witness ==
    /\ mounted
    /\ user = "u2"
    /\ listeners = [NoListeners EXCEPT !["u2"] = 1]
    /\ internships # <<>>
    /\ internships = MapSnapshot(SnapshotDocs(collections["u1"]))
    /\ internships # MapSnapshot(SnapshotDocs(collections["u2"]))

\* The records a snapshot of u's collection holds.
RecordsOf(u) ==
    LET view == MapSnapshot(SnapshotDocs(collections[u]))
    IN  {view[j] : j \in 1..Len(view)}

\* C15: in every state the cached records are records of the signed-in
\* user's collection, and the cache is empty when nobody is signed in; in
\* particular, once the user has changed from A to B the cache holds none
\* of A's records.  (The collections do not change in SpecGate, so a cached
\* record that is none of the user's comes from another user's snapshot.)
C15_CacheBelongsToUser ==
    /\ user = NoUser => internships = <<>>
    /\ user # NoUser =>
         \A k \in 1..Len(internships) : internships[k] \in RecordsOf(user)

\* C16: every create, update and delete call is addressed to
\* users/<uid>/internships of the user who was signed in when the handler
\* ran (in SpecForm the session does not change, so that is the current
\* user), and never to another user's collection.
C16_CallsTargetOwnCollection ==
    \A k \in 1..Len(calls) :
        user # NoUser /\ calls[k].path = <<"users", user, "internships">>

\* A deletion and a submission of u1 are in flight together.
C16_Witness ==
    /\ user = "u1"
    /\ \E k \in 1..Len(calls) : calls[k].op = "deleteDoc"
    /\ \E k \in 1..Len(calls) : IsSubmitCall(calls[k])

\* The create and update calls the mounted form has in flight.
SubmitsInFlight == {k \in 1..Len(calls) : IsSubmitCall(calls[k]) /\ calls[k].awaited}

\* C17: the form has at most one create or update call in flight, and
\* saving is true as long as it has one: while saving is true no second
\* submission reaches the database.
C17_OneSubmissionInFlight ==
    /\ Cardinality(SubmitsInFlight) <= 1
    /\ SubmitsInFlight # {} => saving

\* A submission is in flight and the form holds a valid company and role
\* again: only the disabled button keeps a second submission back.
C17_Witness ==
    /\ saving
    /\ Cardinality(SubmitsInFlight) = 1
    /\ Trim(company) # <<>>
    /\ Trim(role) # <<>>

\* The step in which the database turns down the oldest call in flight and
\* the handler that awaits it goes on.
FailureStep ==
    /\ calls # <<>>
    /\ calls' = Tail(calls)
    /\ Head(calls).awaited
    /\ Rejects(Head(calls))

\* C18: when a create, update or delete call fails, the handler changes
\* nothing of the dashboard's state but the error message and saving: the
\* form fields, the edit mode, the selections and the cached records stay,
\* the error is the handler's failure message, and saving is false again
\* after a failed submission (a failed deletion never touched it).  Making
\* the call changed none of these either.
C18_FailureKeepsLocalState ==
    [][/\ FailureStep
            => /\ UNCHANGED <<formVars, selectionVars, internships>>
               /\ error' = IF IsSubmitCall(Head(calls)) THEN SaveError ELSE DeleteError
               /\ saving' = IF IsSubmitCall(Head(calls)) THEN FALSE ELSE saving
       /\ Len(calls') > Len(calls)
            => UNCHANGED <<formVars, selectionVars, internships>>]_vars

\* An edit submission failed: the form is still in edit mode with the
\* company as typed, saving is false and the failure message shows.
C18_Witness ==
    /\ error = SaveError
    /\ ~saving
    /\ isEditing
    /\ editingId # NoId
    /\ company = <<"b", Space>>
    /\ calls = <<>>

\* C19: deleteDoc is called only after the user confirmed: a step that
\* puts a delete call in flight is handleDelete with the confirmation
\* given, and handleDelete with the confirmation declined makes no call and
\* changes no state.
C19_DeleteNeedsConfirmation ==
    [][/\ (\E i \in Ids : HandleDelete(i, FALSE)) => UNCHANGED vars
       /\ (Len(calls') > Len(calls) /\ calls'[Len(calls')].op = "deleteDoc")
            => \E i \in Ids :
                 /\ HandleDelete(i, TRUE)
                 /\ calls' = Append(calls, DeleteDoc(user, i))]_vars

\* A confirmed deletion of a listed record is in flight.
C19_Witness ==
    /\ user # NoUser
    /\ \E k \in 1..Len(calls), j \in 1..Len(sortedInternships) :
           /\ calls[k].op = "deleteDoc"
           /\ calls[k].id = sortedInternships[j].id

\* C20: an edit submission writes the fields company, role, status and
\* notes of the record editingId and nothing else: the update call names
\* that record and carries exactly these four fields, and when the database
\* applies it no document appears or disappears, no other document changes
\* and every document keeps its createdAt; so createdAt is the same before
\* and after any sequence of edits.
C20_EditWritesFourFields ==
    [][/\ (Len(calls') > Len(calls) /\ calls'[Len(calls')].op = "updateDoc")
            => LET c == calls'[Len(calls')]
               IN  /\ isEditing
                   /\ c.id = editingId
                   /\ c.path = <<"users", user, "internships">>
                   /\ DOMAIN c.data = {"company", "role", "status", "notes"}
       /\ (calls # <<>> /\ calls' = Tail(calls) /\ Head(calls).op = "updateDoc")
            => \A u \in Users, i \in Ids :
                 LET before == collections[u][i]
                     after == collections'[u][i]
                 IN  /\ (before = Absent) = (after = Absent)
                     /\ before # Absent => after.createdAt = before.createdAt
                     /\ (u # Head(calls).path[2] \/ i # Head(calls).id)
                            => after = before]_vars

\* An edit that changes the company of a stored record is in flight.
C20_Witness ==
    /\ user # NoUser
    /\ \E k \in 1..Len(calls) :
           /\ calls[k].op = "updateDoc"
           /\ collections[user][calls[k].id] # Absent
           /\ collections[user][calls[k].id].company # calls[k].data.company
           /\ collections[user][calls[k].id].createdAt # Null

\* ------------------------------------------- claims on the dashboard state
\* C21: the derivation is total: for every record set the snapshot mapping
\* can produce (the cache, and what a live listener would deliver now) and
\* every filter, search string and sort option it completes with a list
\* and counts and raises no error.
C21_DerivationTotal ==
    \A f \in BaseFilters, t \in BaseSearchTerms, o \in SortOption :
        /\ ~DeriveThrows(internships, f, t, o)
        /\ \A u \in Users :
               listeners[u] > 0 => ~DeriveThrows(CurrentSnapshot(u), f, t, o)

\* The cache of a signed-in user equals the snapshot a delivery would bring
\* now.
CacheIsCurrent ==
    /\ user # NoUser
    /\ \E docs \in {SnapshotDocs(LocalView(collections[user], CollectionPath(user), calls))} :
           internships = MapSnapshot(docs)

\* C22: while the subscription is live, a write the cache does not show yet
\* reaches it by a later snapshot delivery: whenever the cache differs from
\* the client's view of the collection (a create or update went through, or
\* is on its way), a delivery eventually makes them equal; and until a
\* delivery the cache stays as it was.
C22_WriteReachesCache ==
    /\ [][internships' # internships => \E u \in Users : OnSnapshot(u)]_vars
    /\ (user # NoUser /\ ~CacheIsCurrent) ~> CacheIsCurrent

\* A submission went through and a delivery brought its record, trimmed
\* and stamped by the server, into the cache.
C22_Witness ==
    /\ user # NoUser
    /\ calls = <<>>
    /\ ~saving
    /\ internships = CurrentSnapshot(user)
    /\ \E k \in 1..Len(internships) :
           /\ internships[k].company = <<"b">>
           /\ internships[k].status = "applied"
           /\ internships[k].createdAt = Timestamp(2)

\* C23: each snapshot delivery replaces the cached record set wholesale:
\* after it the cache is the mapped records of that snapshot, in the
\* snapshot's order, whatever it held before, and loadingList is false.
C23_DeliveryReplacesCache ==
    [][\A u \in Users :
          OnSnapshot(u) => /\ internships' = CurrentSnapshot(u)
                           /\ \A k \in 1..Len(internships') :
                                  internships'[k].id = SnapshotDocs(LocalView(
                                      collections[u], CollectionPath(u), calls))[k].id
                           /\ ~loadingList']_vars

\* The record under edit was in the cache when Edit was clicked; it has
\* been deleted since, and a delivery left the cache without it.
C23_Witness ==
    /\ user # NoUser
    /\ ~loadingList
    /\ isEditing
    /\ internships = CurrentSnapshot(user)
    /\ \A k \in 1..Len(internships) : internships[k].id # editingId

\* The step in which the database acknowledges the create or update call
\* handleSubmit awaits.
SubmitSuccessStep ==
    /\ calls # <<>>
    /\ calls' = Tail(calls)
    /\ Head(calls).awaited
    /\ IsSubmitCall(Head(calls))
    /\ ~Rejects(Head(calls))

\* C24: handleEdit(item) fills the form with item's company, role, status
\* and notes and enters edit mode with editingId = item.id; a successful
\* submit and a cancel leave the form in add mode with company, role and
\* notes empty, status applied and editingId null.
C24_FormPopulatedAndCleared ==
    [][/\ \A k \in 1..MaxDocs :
            HandleEdit(k) => /\ company' = sortedInternships[k].company
                             /\ role' = sortedInternships[k].role
                             /\ status' = sortedInternships[k].status
                             /\ notes' = sortedInternships[k].notes
                             /\ isEditing'
                             /\ editingId' = sortedInternships[k].id
       /\ SubmitSuccessStep \/ HandleCancelEdit
            => /\ company' = <<>>
               /\ role' = <<>>
               /\ status' = "applied"
               /\ notes' = <<>>
               /\ ~isEditing'
               /\ editingId' = NoId]_vars

\* An edit of an offer with notes went through and the form is back in
\* add mode: the collection holds the typed company under the record's
\* status and notes.
C24_Witness ==
    /\ ~isEditing
    /\ editingId = NoId
    /\ company = <<>>
    /\ status = "applied"
    /\ calls = <<>>
    /\ ~saving
    /\ \E i \in Ids : /\ collections[user][i] # Absent
                       /\ collections[user][i].company = <<"b">>
                       /\ collections[user][i].status = "offer"
                       /\ collections[user][i].notes = <<"A">>

\* Search strings written differently from those the user types here.
TermVariants ==
    {<<" ", " ">>, <<"a">>, <<"A", " ">>, <<" ", "a", " ">>, <<"A", " ", "B">>, <<"b">>}

\* C25: a search string that is empty or made of white space lets every
\* cached record pass the search predicate, so the list shows every record
\* of the selected status; and a search string equal to the current one
\* after trimming and lower-casing derives the same list from the same
\* cache, filter and sort option.
C25_SearchNormalized ==
    /\ \A t \in SearchTerms \cup TermVariants :
           Trim(t) = <<>> => \A k \in 1..Len(internships) : MatchesSearch(internships[k], t)
    /\ Trim(searchTerm) = <<>>
         => Len(sortedInternships)
              = Cardinality({k \in 1..Len(internships) :
                                 MatchesStatus(internships[k], statusFilter)})
    /\ \A t \in TermVariants :
           ToLowerCase(Trim(t)) = ToLowerCase(Trim(searchTerm))
             => DeriveView(internships, statusFilter, t, sortOption).sortedInternships
                  = sortedInternships

\* The search box holds " A": the list shows some of the cached records
\* and not all, the same ones "a", "A " and " a " select.
C25_Witness ==
    /\ searchTerm = <<" ", "A">>
    /\ Len(sortedInternships) > 0
    /\ Len(sortedInternships) < Len(internships)

\* C26: isEditing is true exactly when editingId is not null, and a
\* submission goes out as an update of the record editingId when the form
\* is in edit mode and as a create otherwise.
C26_EditModeHasId ==
    /\ [](isEditing <=> editingId # NoId)
    /\ [][Len(calls') > Len(calls) /\ IsSubmitCall(calls'[Len(calls')])
            => /\ (calls'[Len(calls')].op = "updateDoc") <=> isEditing
               /\ isEditing => calls'[Len(calls')].id = editingId]_vars

\* The form went through an edit and a reset, and a creation is in flight
\* from add mode.
C26_Witness ==
    /\ ~isEditing
    /\ editingId = NoId
    /\ \E k \in 1..Len(calls) : calls[k].op = "addDoc"
    /\ \E k \in 1..Len(internships) : internships[k].company = <<"b">>

\* C27: whenever the form of a signed-in user is in edit mode, editingId
\* is the identifier of a record of the current cache, so that an update
\* is only issued for a record the cache holds.
C27_EditTargetInCache ==
    user # NoUser /\ isEditing
      => \E k \in 1..Len(internships) : internships[k].id = editingId

\* C28: saving is true exactly while a create or update call of
\* handleSubmit is in flight: a step that sets it has passed the validation
\* and the signed-in check and issues the call, and once the call is
\* answered, accepted or rejected, saving is false again.
C28_SavingWhileInFlight ==
    /\ [](saving <=> SubmitsInFlight # {})
    /\ [][~saving /\ saving'
            => /\ BlankTest(company) = Filled /\ BlankTest(role) = Filled
               /\ user # NoUser
               /\ calls' = Append(calls, calls'[Len(calls')])
               /\ IsSubmitCall(calls'[Len(calls')])]_vars
    /\ saving ~> ~saving

\* A submission passed the checks and is in flight against a database
\* that will reject it.
C28_Witness ==
    /\ saving
    /\ rulesDeny
    /\ error = NoError
    /\ Cardinality(SubmitsInFlight) = 1

\* C29: a subscription that has been established for a signed-in user and
\* has delivered neither a snapshot nor an error finds loadingList true:
\* the step that establishes it ends with loadingList true, and only a
\* delivery, an error or the loss of the user makes it false; so before
\* the user's first delivery the dashboard shows the loading indicator and
\* not the empty-list message.
C29_LoadingUntilFirstDelivery ==
    [][/\ \A u \in Users : listeners'[u] > listeners[u] => loadingList'
       /\ loadingList /\ ~loadingList' /\ user' # NoUser
            => \E u \in Users : listeners[u] > 0 /\ (OnSnapshot(u) \/ OnSnapshotError(u))]_vars

====
